---- MODULE Spec2Model ----
(***************************************************************************)
(* mdbook-docx: the document assembly pipeline of src/document.rs and      *)
(* src/pandoc.rs.  DocumentList::process runs Document::process on every   *)
(* configured document in list order; Document::process builds the pandoc  *)
(* options, selects the chapters whose path matches an include glob,       *)
(* concatenates their content, runs pandoc on it (the primary conversion)  *)
(* and then runs pandoc again to merge prepend files, the primary output   *)
(* and append files (combine_sections).                                    *)
(*                                                                         *)
(* Strings are sequences of one-character strings.  Option<T> is a         *)
(* sequence of length at most one: None is << >>, Some(x) is <<x>>.        *)
(* A PathBuf that is joined is a record [abs, comps]; a chapter path and   *)
(* an include entry are only ever used in their string form (to_str).      *)
(***************************************************************************)
EXTENDS Integers, Sequences, FiniteSets, TLC

\* ------------------------------------------------------------------ bounds
\* most chapters (and separators) in a book of the selection input space
MaxChapters == 3
\* most entries in an include list of the selection input space
MaxIncludes == 2
\* most entries in a prepend or an append list of the option input space
MaxAux == 2
\* most documents in a document list of the pipeline input space
MaxDocs == 3

\* ------------------------------------------------------------ basic values
None == << >>

Some(x) == <<x>>

is_some(o) == Len(o) > 0

unwrap(o) == o[1]

\* all sequences over S of length 0..n
SeqUpTo(S, n) == UNION {[1..k -> S] : k \in 0..n}

\* std::path::PathBuf, for the paths the code joins
Path(abs, comps) == [abs |-> abs, comps |-> comps]

\* PathBuf::join: an absolute argument replaces the receiver
join(a, b) == IF b.abs THEN b ELSE Path(a.abs, a.comps \o b.comps)

\* ------------------------------------------------------------ glob::Pattern
\* std::path::is_separator
is_separator(c) == c = "/"

Char(c) == [t |-> "Char", c |-> c, set |-> {}]

AnyChar == [t |-> "AnyChar", c |-> "", set |-> {}]

AnySequence == [t |-> "AnySequence", c |-> "", set |-> {}]

AnyRecursiveSequence == [t |-> "AnyRecursiveSequence", c |-> "", set |-> {}]

AnyWithin(S) == [t |-> "AnyWithin", c |-> "", set |-> S]

PatternOk(tokens) == [ok |-> TRUE, tokens |-> tokens]

PatternError == [ok |-> FALSE, tokens |-> << >>]

\* index of the first "]" of chars at or after position j, 0 when there is none
RECURSIVE FindClose(_, _)
FindClose(chars, j) ==
    IF j > Len(chars) THEN 0
    ELSE IF chars[j] = "]" THEN j
    ELSE FindClose(chars, j + 1)

\* index of the first position at or after i that holds no "*"
RECURSIVE SkipStars(_, _)
SkipStars(chars, i) ==
    IF i <= Len(chars) /\ chars[i] = "*" THEN SkipStars(chars, i + 1) ELSE i

\* Pattern::new: the tokenising loop, from position i with the tokens so far.
\* "?" is AnyChar; one "*" is AnySequence; "**" must be a whole path
\* component; three or more "*" are an error; "[" needs its closing "]".
RECURSIVE ParseFrom(_, _, _)
ParseFrom(chars, i, tokens) ==
    IF i > Len(chars) THEN PatternOk(tokens)
    ELSE IF chars[i] = "?" THEN ParseFrom(chars, i + 1, Append(tokens, AnyChar))
    ELSE IF chars[i] = "*" THEN
        LET e == SkipStars(chars, i)
            count == e - i
        IN  IF count > 2 THEN PatternError
            ELSE IF count = 2 THEN
                IF i = 1 \/ is_separator(chars[i - 1]) THEN
                    IF e <= Len(chars) /\ is_separator(chars[e]) THEN
                        ParseFrom(chars, e + 1,
                            IF Len(tokens) > 1 /\ tokens[Len(tokens)] = AnyRecursiveSequence
                            THEN tokens ELSE Append(tokens, AnyRecursiveSequence))
                    ELSE IF e > Len(chars) THEN
                        ParseFrom(chars, e,
                            IF Len(tokens) > 1 /\ tokens[Len(tokens)] = AnyRecursiveSequence
                            THEN tokens ELSE Append(tokens, AnyRecursiveSequence))
                    ELSE PatternError
                ELSE PatternError
            ELSE ParseFrom(chars, e, Append(tokens, AnySequence))
    ELSE IF chars[i] = "[" THEN
        LET close == IF i + 2 <= Len(chars) THEN FindClose(chars, i + 2) ELSE 0
        IN  IF close = 0 THEN PatternError
            ELSE ParseFrom(chars, close + 1,
                     Append(tokens, AnyWithin({chars[k] : k \in (i + 1)..(close - 1)})))
    ELSE ParseFrom(chars, i + 1, Append(tokens, Char(chars[i])))

\* Pattern::new(s)
Pattern_new(s) == ParseFrom(s, 1, << >>)

\* Pattern::matches_from with MatchOptions::new() (case sensitive, no literal
\* separator, no literal leading dot): tokens from position i against the rest
\* of the file name.  StarLoop is the "while let Some(c) = file.next()" loop
\* of a "*" or "**" token.
RECURSIVE matches_from(_, _, _, _)
RECURSIVE StarLoop(_, _, _, _)
matches_from(tokens, i, file, follows_separator) ==
    IF i > Len(tokens) THEN
        IF file = << >> THEN "Match" ELSE "SubPatternDoesntMatch"
    ELSE IF tokens[i].t \in {"AnySequence", "AnyRecursiveSequence"} THEN
        LET m == matches_from(tokens, i + 1, file, follows_separator)
        IN  IF m # "SubPatternDoesntMatch" THEN m
            ELSE StarLoop(tokens, i, file, follows_separator)
    ELSE IF file = << >> THEN "EntirePatternDoesntMatch"
    ELSE LET c == Head(file)
             hit == CASE tokens[i].t = "AnyChar" -> TRUE
                      [] tokens[i].t = "AnyWithin" -> c \in tokens[i].set
                      [] OTHER -> c = tokens[i].c
         IN  IF ~hit THEN "SubPatternDoesntMatch"
             ELSE matches_from(tokens, i + 1, Tail(file), is_separator(c))

StarLoop(tokens, i, file, follows_separator) ==
    IF file = << >> THEN matches_from(tokens, i + 1, file, follows_separator)
    ELSE LET c == Head(file)
             sep == is_separator(c)
         IN  IF tokens[i].t = "AnyRecursiveSequence" /\ ~sep
             THEN StarLoop(tokens, i, Tail(file), sep)
             ELSE LET m == matches_from(tokens, i + 1, Tail(file), sep)
                  IN  IF m # "SubPatternDoesntMatch" THEN m
                      ELSE StarLoop(tokens, i, Tail(file), sep)

\* Pattern::matches_path on a path whose string form is file
matches_path(p, file) == matches_from(p.tokens, 1, file, TRUE) = "Match"

\* ------------------------------------------------------------- the book
\* mdbook::BookItem as context.book.iter() presents it, in traversal order
Chapter(path, content) == [kind |-> "Chapter", path |-> path, content |-> content]

Separator == [kind |-> "Separator", path |-> None, content |-> << >>]

\* mdbook Chapter::is_draft_chapter: a draft chapter is one without a path
is_draft_chapter(c) == ~is_some(c.path)

\* ------------------------------------------------------------- Document
Document(filename, template, include, offset_headings_by, append, prepend) ==
    [filename |-> filename, template |-> template, include |-> include,
     offset_headings_by |-> offset_headings_by, append |-> append,
     prepend |-> prepend]

\* ------------------------------------------------------------- PandocConfig
DataDir(p) == [opt |-> "DataDir", path |-> p, n |-> 0]

ResourcePath(ps) == [opt |-> "ResourcePath", path |-> ps[1], n |-> Len(ps)]

AtxHeaders == [opt |-> "AtxHeaders", path |-> Path(FALSE, << >>), n |-> 0]

ReferenceLinks == [opt |-> "ReferenceLinks", path |-> Path(FALSE, << >>), n |-> 0]

ShiftHeadingLevelBy(i) == [opt |-> "ShiftHeadingLevelBy", path |-> Path(FALSE, << >>), n |-> i]

ReferenceDoc(p) == [opt |-> "ReferenceDoc", path |-> p, n |-> 0]

IncludeBeforeBody(p) == [opt |-> "IncludeBeforeBody", path |-> p, n |-> 0]

IncludeAfterBody(p) == [opt |-> "IncludeAfterBody", path |-> p, n |-> 0]

\* impl Default for PandocConfig
PandocConfig_default ==
    [input_extensions |-> <<"PipeTables", "RawHtml", "AutolinkBareUris",
                            "AutoIdentifiers", "HardLineBreaks", "BlankBeforeHeader",
                            "TableCaptions", "PandocTitleBlock", "YamlMetadataBlock",
                            "ImplicitHeaderReferences">>,
     output_extensions |-> << >>,
     options |-> << >>]

\* the "for p in path { self.options.push(make(root.join(p))) }" loops
RECURSIVE PushJoined(_, _, _, _)
PushJoined(options, data_dir, paths, kind) ==
    IF paths = << >> THEN options
    ELSE PushJoined(
             Append(options,
                 IF kind = "before" THEN IncludeBeforeBody(join(data_dir, Head(paths)))
                 ELSE IncludeAfterBody(join(data_dir, Head(paths)))),
             data_dir, Tail(paths), kind)

\* assign_options with the options pushed onto what self.options already
\* holds, instead of assigned afresh
assign_options_extending(self, context_root, doc) ==
    LET data_dir == context_root
        src_path == join(data_dir, Path(FALSE, <<"src">>))
        o0 == self.options \o
              <<DataDir(data_dir), ResourcePath(<<src_path>>), AtxHeaders, ReferenceLinks>>
        o1 == IF is_some(doc.offset_headings_by)
              THEN Append(o0, ShiftHeadingLevelBy(unwrap(doc.offset_headings_by)))
              ELSE o0
        o2 == IF is_some(doc.template)
              THEN Append(o1, ReferenceDoc(join(data_dir, unwrap(doc.template))))
              ELSE o1
        o3 == IF is_some(doc.prepend)
              THEN PushJoined(o2, data_dir, unwrap(doc.prepend), "before")
              ELSE o2
        o4 == IF is_some(doc.append)
              THEN PushJoined(o3, data_dir, unwrap(doc.append), "after")
              ELSE o3
    IN  [self EXCEPT !.options = o4]

\* assign_options with the prepend files pushed as after-body includes
assign_options_prepend_as_after(self, context_root, doc) ==
    LET data_dir == context_root
        src_path == join(data_dir, Path(FALSE, <<"src">>))
        o0 == <<DataDir(data_dir), ResourcePath(<<src_path>>), AtxHeaders, ReferenceLinks>>
        o1 == IF is_some(doc.offset_headings_by)
              THEN Append(o0, ShiftHeadingLevelBy(unwrap(doc.offset_headings_by)))
              ELSE o0
        o2 == IF is_some(doc.template)
              THEN Append(o1, ReferenceDoc(join(data_dir, unwrap(doc.template))))
              ELSE o1
        o3 == IF is_some(doc.prepend)
              THEN PushJoined(o2, data_dir, unwrap(doc.prepend), "after")
              ELSE o2
        o4 == IF is_some(doc.append)
              THEN PushJoined(o3, data_dir, unwrap(doc.append), "after")
              ELSE o3
    IN  [self EXCEPT !.options = o4]

\* PandocConfig::assign_options(&mut self, context, doc): self.options is
\* assigned afresh, then extended field by field
assign_options(self, context_root, doc) ==
    LET data_dir == context_root
        src_path == join(data_dir, Path(FALSE, <<"src">>))
        o0 == <<DataDir(data_dir), ResourcePath(<<src_path>>), AtxHeaders, ReferenceLinks>>
        o1 == IF is_some(doc.offset_headings_by)
              THEN Append(o0, ShiftHeadingLevelBy(unwrap(doc.offset_headings_by)))
              ELSE o0
        o2 == IF is_some(doc.template)
              THEN Append(o1, ReferenceDoc(join(data_dir, unwrap(doc.template))))
              ELSE o1
        o3 == IF is_some(doc.prepend)
              THEN PushJoined(o2, data_dir, unwrap(doc.prepend), "before")
              ELSE o2
        o4 == IF is_some(doc.append)
              THEN PushJoined(o3, data_dir, unwrap(doc.append), "after")
              ELSE o3
    IN  [self EXCEPT !.options = o4]

\* ------------------------------------------------------------- selection
\* Document::get_patterns, the compile loop: every include entry through
\* Pattern::new(..).expect(..); the result is a panic on the first entry that
\* is no valid glob
RECURSIVE CompileAll(_, _)
CompileAll(include, patterns) ==
    IF include = << >> THEN [panic |-> FALSE, patterns |-> patterns]
    ELSE LET p == Pattern_new(Head(include))
         IN  IF ~p.ok THEN [panic |-> TRUE, patterns |-> << >>]
             ELSE CompileAll(Tail(include), Append(patterns, p))

\* the wildcard catch-all glob, Pattern::new("*")
Wildcard == Pattern_new(<<"*">>)

\* get_patterns without the wildcard for an empty pattern list
get_patterns_no_wildcard(doc) ==
    CompileAll(IF is_some(doc.include) THEN unwrap(doc.include) ELSE << >>, << >>)

\* Document::get_patterns: include.clone().unwrap_or_default() compiled; an
\* empty result is replaced by the wildcard
get_patterns(doc) ==
    LET c == CompileAll(IF is_some(doc.include) THEN unwrap(doc.include) ELSE << >>, << >>)
    IN  IF c.panic THEN c
        ELSE IF Len(c.patterns) = 0 THEN [panic |-> FALSE, patterns |-> <<Wildcard>>]
        ELSE c

\* the inner loop with pattern_match assigned by every pattern, so that the
\* last pattern decides
pattern_match_last(patterns, file) ==
    IF patterns = << >> THEN FALSE
    ELSE matches_path(patterns[Len(patterns)], file)

\* the inner loop of get_chapters: pattern_match is set by every pattern that
\* matches and never cleared
RECURSIVE pattern_match(_, _)
pattern_match(patterns, file) ==
    IF patterns = << >> THEN FALSE
    ELSE LET rest == pattern_match(Tail(patterns), file)
         IN  IF matches_path(Head(patterns), file) THEN TRUE ELSE rest

\* the outer loop of get_chapters over context.book.iter(): ch after the walk
RECURSIVE SelectFrom(_, _, _)
SelectFrom(items, patterns, ch) ==
    IF items = << >> THEN ch
    ELSE LET item == Head(items)
         IN  SelectFrom(Tail(items), patterns,
                 IF item.kind = "Chapter" /\ is_some(item.path)
                    /\ pattern_match(patterns, unwrap(item.path))
                 THEN Append(ch, unwrap(item.path))
                 ELSE ch)

\* Vec::contains
contains(v, x) == \E k \in 1..Len(v) : v[k] = x

\* the assembly loop without the newlines after a chapter
RECURSIVE AssembleFrom_no_padding(_, _, _)
AssembleFrom_no_padding(items, chapters, content) ==
    IF items = << >> THEN content
    ELSE LET item == Head(items)
         IN  AssembleFrom_no_padding(Tail(items), chapters,
                 IF item.kind = "Chapter" /\ is_some(item.path)
                    /\ contains(chapters, unwrap(item.path))
                 THEN content \o item.content
                 ELSE content)

\* the assembly loop with a single newline after every chapter
RECURSIVE AssembleFrom_single_newline(_, _, _)
AssembleFrom_single_newline(items, chapters, content) ==
    IF items = << >> THEN content
    ELSE LET item == Head(items)
         IN  AssembleFrom_single_newline(Tail(items), chapters,
                 IF item.kind = "Chapter" /\ is_some(item.path)
                    /\ contains(chapters, unwrap(item.path))
                 THEN content \o item.content \o <<"\n">>
                 ELSE content)

\* the loop of get_filtered_content over context.book.iter(): content after
\* the walk; every selected chapter pushes its content, then "\n\n"
RECURSIVE AssembleFrom(_, _, _)
AssembleFrom(items, chapters, content) ==
    IF items = << >> THEN content
    ELSE LET item == Head(items)
         IN  AssembleFrom(Tail(items), chapters,
                 IF item.kind = "Chapter" /\ is_some(item.path)
                    /\ contains(chapters, unwrap(item.path))
                 THEN content \o item.content \o <<"\n", "\n">>
                 ELSE content)

\* ------------------------------------------------------------- combine
\* the "for p in paths { parts.push(context.root.clone().join(p)) }" loops
RECURSIVE PushParts(_, _, _)
PushParts(parts, context_root, paths) ==
    IF paths = << >> THEN parts
    ELSE PushParts(Append(parts, join(context_root, Head(paths))), context_root, Tail(paths))

\* the directory combine_sections looks for the primary output in
BookDocx == Path(FALSE, <<"book", "docx">>)

\* the parts list with the main file pushed first
combine_parts_main_first(doc, context_root) ==
    LET p0 == <<join(join(context_root, BookDocx), doc.filename)>>
        p1 == IF is_some(doc.prepend)
              THEN PushParts(p0, context_root, unwrap(doc.prepend))
              ELSE p0
    IN  IF is_some(doc.append)
        THEN PushParts(p1, context_root, unwrap(doc.append))
        ELSE p1

\* combine_sections: the parts list handed to pandoc.add_input
combine_parts(doc, context_root) ==
    LET p0 == IF is_some(doc.prepend)
              THEN PushParts(<< >>, context_root, unwrap(doc.prepend))
              ELSE << >>
        p1 == Append(p0, join(join(context_root, BookDocx), doc.filename))
    IN  IF is_some(doc.append)
        THEN PushParts(p1, context_root, unwrap(doc.append))
        ELSE p1

\* ------------------------------------------------------------- results
\* anyhow::Result<()> of Document::process and DocumentList::process
Pending == [kind |-> "Pending", cause |-> ""]

Ok == [kind |-> "Ok", cause |-> ""]

\* bail!("No markdown files match the specified include and/or exclude filters...")
NoMatchingChapters == [kind |-> "Err", cause |-> "No markdown files match"]

\* bail!("The provided include/exclude filters do not match any content.")
EmptyFilteredContent == [kind |-> "Err", cause |-> "filters do not match any content"]

\* bail!(e) / ? on the PandocError e of pandoc.execute()
ConverterError(e) == [kind |-> "Err", cause |-> e]

\* what pandoc.execute() can return: Ok, or a PandocError
PandocErrors == {"PandocError::IoErr", "PandocError::Err"}

ExecuteOutcomes == {"Ok"} \cup PandocErrors

\* ------------------------------------------------------------- inputs
\* context.root
BookRoot == Path(TRUE, <<"r">>)

OtherRoot == Path(TRUE, <<"s">>)

\* chapter paths in their string form, and chapter contents
FileA == <<"a">>

FileAB == <<"a", "b">>

FileB == <<"b">>

\* the items a book of the selection input space is made of
BookItems ==
    {Separator, Chapter(None, <<"x">>), Chapter(Some(FileA), << >>),
     Chapter(Some(FileA), <<"x">>), Chapter(Some(FileAB), <<"y">>),
     Chapter(Some(FileB), << >>)}

Books == SeqUpTo(BookItems, MaxChapters)

\* include entries: valid globs and, with "[", one that is no valid glob
IncludeStrings == {<<"*">>, <<"a">>, <<"a", "?">>, <<"b">>, <<"[">>}

Includes == {None} \cup {Some(l) : l \in SeqUpTo(IncludeStrings, MaxIncludes)}

OutDocx == Path(FALSE, <<"out.docx">>)

SelectDocuments == {Document(OutDocx, None, inc, None, None, None) : inc \in Includes}

\* prepend, append and template files: relative ones and an absolute one
AuxPaths == {Path(FALSE, <<"f">>), Path(FALSE, <<"g">>), Path(TRUE, <<"h">>)}

AuxLists == {None} \cup {Some(l) : l \in SeqUpTo(AuxPaths, MaxAux)}

Offsets == {None, Some(-1), Some(2)}

Templates == {None, Some(Path(FALSE, <<"reference.docx">>))}

OptionDocuments ==
    {Document(OutDocx, t, None, o, a, p) :
        t \in Templates, o \in Offsets, a \in AuxLists, p \in AuxLists}

OptionBook == <<Chapter(Some(FileA), <<"x">>)>>

\* the pipeline input space: a few books, and documents that select all,
\* some or no chapters, or panic, with and without files to merge
PipelineBooks ==
    {<< >>,
     <<Chapter(Some(FileA), <<"x">>)>>,
     <<Chapter(Some(FileA), << >>), Separator, Chapter(Some(FileB), <<"y">>)>>}

PipelineDocuments ==
    {Document(f, None, inc, None, None, p) :
        f \in {OutDocx, Path(TRUE, <<"o", "abs.docx">>)},
        inc \in {None, Some(<<FileB>>), Some(<<FileA, <<"[">>>>)},
        p \in {None, Some(<<Path(FALSE, <<"f">>)>>)}}

\* build.build-dir of book.toml: mdbook's default and a configured one
BuildDirs == {"book", "out"}

\* context.destination: root/<build-dir>/<renderer name>; mdbook runs the
\* renderer, and so pandoc, with it as working directory
Destination(r, build_dir) ==
    join(join(r, Path(FALSE, <<build_dir>>)), Path(FALSE, <<"docx">>))

\* ------------------------------------------------------------- state
VARIABLES
    book,           \* context.book, as iter() presents it
    root,           \* context.root
    destination,    \* context.destination, the directory mdbook runs the renderer in
    documents,      \* DocumentList.documents
    idx,            \* position of the for loop of DocumentList::process
    pc,             \* the step the run is at
    pandoc_config,  \* Document::process: pandoc_config
    patterns,       \* get_chapters: patterns
    chapters,       \* get_filtered_content: chapters (ch of get_chapters)
    content,        \* get_filtered_content: content
    result,         \* DocumentList::process: result of doc.process
    listResult,     \* what DocumentList::process returned
    calls,          \* every pandoc.execute() so far, in order
    written,        \* the output files pandoc has written
    log,            \* every step taken so far, <<document index, step>>
    docResults      \* what Document::process returned, per document so far

vars == <<book, root, destination, documents, idx, pc, pandoc_config, patterns, chapters,
          content, result, listResult, calls, written, log, docResults>>

inputs == <<book, root, destination, documents>>

\* the documents taken from the end of the list first
doc_reversed == documents[Len(documents) + 1 - idx]

\* for doc in self.documents: the document the loop is at
doc == documents[idx]

\* OutputKind::File(self.filename) as pandoc resolves it: a relative filename
\* lies beneath the working directory of the run
OutputFile(d) == join(destination, d.filename)

InitRun ==
    /\ idx = 1
    /\ pc = "loop"
    /\ pandoc_config = PandocConfig_default
    /\ patterns = << >>
    /\ chapters = << >>
    /\ content = << >>
    /\ result = Pending
    /\ listResult = Pending
    /\ calls = << >>
    /\ written = {}
    /\ log = << >>
    /\ docResults = << >>

Init ==
    /\ book \in PipelineBooks
    /\ root = BookRoot
    /\ destination \in {Destination(root, b) : b \in BuildDirs}
    /\ documents \in SeqUpTo(PipelineDocuments, MaxDocs)
    /\ InitRun

InitSelect ==
    /\ book \in Books
    /\ root = BookRoot
    /\ destination = Destination(root, "book")
    /\ documents \in {<<d>> : d \in SelectDocuments}
    /\ InitRun

InitOptions ==
    /\ book = OptionBook
    /\ root \in {BookRoot, OtherRoot}
    /\ destination = Destination(root, "book")
    /\ documents \in {<<d>> : d \in OptionDocuments}
    /\ InitRun

\* ------------------------------------------------------------- steps
Step(name) == log' = Append(log, <<idx, name>>)

\* Document::process returns r
Return(r) ==
    /\ result' = r
    /\ docResults' = Append(docResults, r)
    /\ pc' = "check"

\* one pandoc.execute(): the invocation and what it returned
Call(kind, pipe, files, options, output, outcome) ==
    [doc |-> idx, kind |-> kind, pipe |-> pipe, files |-> files,
     options |-> options, output |-> output, outcome |-> outcome]

\* DocumentList::process, "for doc in self.documents": the next document, or
\* Ok(()) after the last
ListNext ==
    /\ pc = "loop"
    /\ IF idx > Len(documents)
       THEN /\ listResult' = Ok
            /\ pc' = "returned"
       ELSE /\ pc' = "assign_options"
            /\ UNCHANGED listResult
    /\ pandoc_config' = PandocConfig_default
    /\ patterns' = << >>
    /\ chapters' = << >>
    /\ content' = << >>
    /\ result' = Pending
    /\ UNCHANGED <<inputs, idx, calls, written, log, docResults>>

\* Document::process: pandoc_config.assign_options(&context, &self)
AssignOptions ==
    /\ pc = "assign_options"
    /\ pandoc_config' = assign_options(pandoc_config, root, doc)
    /\ Step("assign_options")
    /\ pc' = "get_patterns"
    /\ UNCHANGED <<inputs, idx, patterns, chapters, content, result, listResult,
                   calls, written, docResults>>

\* get_filtered_content -> get_chapters -> get_patterns: a panic unwinds the
\* whole run, nothing is returned
GetPatterns ==
    /\ pc = "get_patterns"
    /\ LET c == get_patterns(doc)
       IN  /\ patterns' = c.patterns
           /\ pc' = IF c.panic THEN "panicked" ELSE "get_chapters"
    /\ Step("get_patterns")
    /\ UNCHANGED <<inputs, idx, pandoc_config, chapters, content, result,
                   listResult, calls, written, docResults>>

\* get_chapters without the bail on an empty ch
GetChapters_no_bail ==
    /\ pc = "get_chapters"
    /\ chapters' = SelectFrom(book, patterns, << >>)
    /\ pc' = "get_filtered_content"
    /\ Step("get_chapters")
    /\ UNCHANGED <<inputs, idx, pandoc_config, patterns, content, result,
                   listResult, calls, written, docResults>>

\* get_chapters: the walk over the book, and the bail on an empty ch
GetChapters ==
    /\ pc = "get_chapters"
    /\ LET ch == SelectFrom(book, patterns, << >>)
       IN  IF ch = << >>
           THEN /\ Return(NoMatchingChapters)
                /\ UNCHANGED chapters
           ELSE /\ chapters' = ch
                /\ pc' = "get_filtered_content"
                /\ UNCHANGED <<result, docResults>>
    /\ Step("get_chapters")
    /\ UNCHANGED <<inputs, idx, pandoc_config, patterns, content, listResult,
                   calls, written>>

\* get_filtered_content: the walk over the book, and the bail on empty content
GetFilteredContent ==
    /\ pc = "get_filtered_content"
    /\ LET c == AssembleFrom(book, chapters, << >>)
       IN  IF c = << >>
           THEN /\ Return(EmptyFilteredContent)
                /\ UNCHANGED content
           ELSE /\ content' = c
                /\ pc' = "execute"
                /\ UNCHANGED <<result, docResults>>
    /\ Step("get_filtered_content")
    /\ UNCHANGED <<inputs, idx, pandoc_config, patterns, chapters, listResult,
                   calls, written>>

\* the primary conversion with its error dropped: combine_sections runs anyway
Execute_ignoring_failure ==
    /\ pc = "execute"
    /\ \E outcome \in ExecuteOutcomes :
        /\ calls' = Append(calls,
               Call("primary", content, << >>, pandoc_config.options, doc.filename, outcome))
        /\ written' = IF outcome = "Ok"
                      THEN written \cup {[doc |-> idx, path |-> OutputFile(doc)]}
                      ELSE written
    /\ pc' = "combine_sections"
    /\ Step("execute")
    /\ UNCHANGED <<inputs, idx, pandoc_config, patterns, chapters, content,
                   result, listResult, docResults>>

\* Document::process: the primary conversion, pandoc.execute() on the piped
\* content with the options of pandoc_config, writing self.filename
Execute ==
    /\ pc = "execute"
    /\ \E outcome \in ExecuteOutcomes :
        /\ calls' = Append(calls,
               Call("primary", content, << >>, pandoc_config.options, doc.filename, outcome))
        /\ IF outcome = "Ok"
           THEN /\ written' = written \cup {[doc |-> idx, path |-> OutputFile(doc)]}
                /\ pc' = "combine_sections"
                /\ UNCHANGED <<result, docResults>>
           ELSE /\ Return(ConverterError(outcome))
                /\ UNCHANGED written
    /\ Step("execute")
    /\ UNCHANGED <<inputs, idx, pandoc_config, patterns, chapters, content, listResult>>

\* Document::combine_sections: the parts, a fresh PandocConfig, and
\* pandoc.execute()? writing self.filename
CombineSections ==
    /\ pc = "combine_sections"
    /\ LET parts == combine_parts(doc, root)
           config == assign_options(PandocConfig_default, root, doc)
       IN  \E outcome \in ExecuteOutcomes :
            /\ calls' = Append(calls,
                   Call("combine", << >>, parts, config.options, doc.filename, outcome))
            /\ IF outcome = "Ok"
               THEN /\ written' = written \cup {[doc |-> idx, path |-> OutputFile(doc)]}
                    /\ Return(Ok)
               ELSE /\ Return(ConverterError(outcome))
                    /\ UNCHANGED written
    /\ Step("combine_sections")
    /\ UNCHANGED <<inputs, idx, pandoc_config, patterns, chapters, content, listResult>>

\* the loop of DocumentList::process with the error of a document dropped
ListCheck_continuing ==
    /\ pc = "check"
    /\ idx' = idx + 1
    /\ pc' = "loop"
    /\ UNCHANGED <<inputs, pandoc_config, patterns, chapters, content, result,
                   listResult, calls, written, log, docResults>>

\* DocumentList::process: "if let Err(e) = result { bail!(e) }", else the
\* loop continues
ListCheck ==
    /\ pc = "check"
    /\ IF result.kind = "Err"
       THEN /\ listResult' = result
            /\ pc' = "returned"
            /\ UNCHANGED idx
       ELSE /\ idx' = idx + 1
            /\ pc' = "loop"
            /\ UNCHANGED listResult
    /\ UNCHANGED <<inputs, pandoc_config, patterns, chapters, content, result,
                   calls, written, log, docResults>>

Next ==
    \/ ListNext
    \/ AssignOptions
    \/ GetPatterns
    \/ GetChapters
    \/ GetFilteredContent
    \/ Execute
    \/ CombineSections
    \/ ListCheck

\* the run over a list of documents of the pipeline input space
Spec == Init /\ [][Next]_vars

\* the run over one document, for every book and include list of the
\* selection input space
SpecSelect == InitSelect /\ [][Next]_vars

\* the run over one document, for every root, template, offset, prepend and
\* append list of the option input space
SpecOptions == InitOptions /\ [][Next]_vars

\* =============================================================== claims
\* the step has been taken for the document the loop is at
Acted(step) == \E k \in 1..Len(log) : log[k] = <<idx, step>>

\* the n-th smallest element of a set of indices
NthOf(S, n) == CHOOSE k \in S : Cardinality({j \in S : j <= k}) = n

\* the chapter paths at the book positions S, in book order
PathsAt(S) == [n \in 1..Cardinality(S) |-> unwrap(book[NthOf(S, n)].path)]

\* book positions of the chapters that have a path and are no draft
PathBearing ==
    {k \in 1..Len(book) :
        /\ book[k].kind = "Chapter"
        /\ is_some(book[k].path)
        /\ ~is_draft_chapter(book[k])}

\* book positions of the path-bearing chapters some compiled pattern matches
MatchedIdx ==
    {k \in PathBearing :
        \E n \in 1..Len(patterns) : matches_path(patterns[n], unwrap(book[k].path))}

\* the calls made for document i
CallsOf(i) == {k \in 1..Len(calls) : calls[k].doc = i}

\* document i has failed: Document::process returned an Err
Failed(i) == i <= Len(docResults) /\ docResults[i].kind = "Err"

\* C1: DocumentList::process is fail-fast.  Once document i has returned an
\* error no step of a later document is ever taken and what
\* DocumentList::process returns is exactly that error; a panic in document i
\* likewise leaves every later document untouched; and when no document
\* fails, every document runs through to its combine step and the result is Ok.
C1_FailFast ==
    /\ \A i \in 1..Len(docResults) :
          Failed(i) =>
             /\ \A k \in 1..Len(log) : log[k][1] <= i
             /\ pc \in {"check", "returned"}
             /\ pc = "returned" => listResult = docResults[i]
    /\ pc = "panicked" => \A k \in 1..Len(log) : log[k][1] <= idx
    /\ (pc = "returned" /\ listResult.kind = "Err") => Failed(Len(docResults))
    /\ (pc = "returned" /\ \A i \in 1..Len(docResults) : ~Failed(i)) =>
          /\ listResult = Ok
          /\ Len(docResults) = Len(documents)
          /\ \A i \in 1..Len(documents) :
                \E k \in 1..Len(log) : log[k] = <<i, "combine_sections">>

\* C1 witness: a list of at least two documents whose first document failed,
\* and DocumentList::process has returned
C1_Witness ==
    /\ pc = "returned"
    /\ Len(documents) >= 2
    /\ Failed(1)
    /\ listResult = docResults[1]

\* C2: get_chapters returns exactly the paths of the chapters that have a
\* path, are no draft and are matched by at least one compiled pattern, in
\* book order; it fails exactly when there is no such chapter.
C2_SelectionIsOrderedFilter ==
    Acted("get_chapters") =>
        /\ chapters = PathsAt(MatchedIdx)
        /\ (MatchedIdx = {}) <=> (idx <= Len(docResults) /\ docResults[idx] = NoMatchingChapters)

\* C2 witness: two patterns, of which only the second matches the first
\* selected chapter, and a path-bearing chapter that is left out
C2_Witness ==
    /\ Acted("get_chapters")
    /\ Len(patterns) = 2
    /\ Len(chapters) >= 1
    /\ ~matches_path(patterns[1], chapters[1])
    /\ PathBearing \ MatchedIdx # {}

\* C3: an absent, an empty and a ["*"] include list all compile to the single
\* wildcard pattern and select every path-bearing, non-draft chapter in book
\* order (failing, all three alike, when the book has none).
C3_NoIncludeIsWildcard ==
    (idx <= Len(documents) /\ doc.include \in {None, Some(<< >>), Some(<<<<"*">>>>)}) =>
        /\ Acted("get_patterns") => (pc # "panicked" /\ patterns = <<Wildcard>>)
        /\ Acted("get_chapters") =>
              /\ chapters = PathsAt(PathBearing)
              /\ (PathBearing = {}) <=>
                     (idx <= Len(docResults) /\ docResults[idx] = NoMatchingChapters)

\* C3 witness: no include list at all, and both the chapters that have a path
\* selected while a chapter without path is passed over
C3_Witness ==
    /\ idx <= Len(documents)
    /\ doc.include = None
    /\ Acted("get_chapters")
    /\ Len(chapters) = 2
    /\ Len(book) = 3
    /\ \E k \in 1..Len(book) : book[k].kind = "Chapter" /\ ~is_some(book[k].path)

\* C4: when the patterns of a document match no chapter of a non-empty book,
\* Document::process returns the NoMatchingChapters error, pandoc has not been
\* run for the document and no output file of it has been written.
C4_NoMatchStopsDocument ==
    (book # << >> /\ Acted("get_chapters") /\ MatchedIdx = {}) =>
        /\ pc \in {"check", "returned"}
        /\ result = NoMatchingChapters
        /\ docResults[idx] = NoMatchingChapters
        /\ CallsOf(idx) = {}
        /\ {w \in written : w.doc = idx} = {}
        /\ pc = "returned" => listResult = NoMatchingChapters

\* C4 witness: a book with a path-bearing chapter none of the valid patterns
\* matches, after the run has ended
C4_Witness ==
    /\ PathBearing # {}
    /\ Acted("get_chapters")
    /\ MatchedIdx = {}
    /\ pc = "returned"

\* book positions of the chapters whose path get_chapters returned
Selected == {k \in PathBearing : contains(chapters, unwrap(book[k].path))}

\* the concatenation of a sequence of strings
RECURSIVE Flatten(_)
Flatten(ss) == IF ss = << >> THEN << >> ELSE Head(ss) \o Flatten(Tail(ss))

\* the content of the chapters at the book positions S, each followed by two
\* newlines, in book order
PaddedAt(S) ==
    [n \in 1..Cardinality(S) |-> book[NthOf(S, n)].content \o <<"\n", "\n">>]

\* s occurs in t
IsSubstring(s, t) ==
    \E i \in 0..(Len(t) - Len(s)) : SubSeq(t, i + 1, i + Len(s)) = s

\* C5: the assembled content is the concatenation, in book order, of the
\* content of every selected chapter followed by exactly two newlines, and of
\* nothing else; so two adjacent selected chapters A, B leave
\* A.content "\n\n" B.content in it.
C5_ContentIsPaddedConcatenation ==
    Acted("get_filtered_content") =>
        /\ content = Flatten(PaddedAt(Selected))
        /\ \A n \in 1..(Cardinality(Selected) - 1) :
              IsSubstring(book[NthOf(Selected, n)].content \o <<"\n", "\n">>
                              \o book[NthOf(Selected, n + 1)].content,
                          content)

\* C5 witness: two selected chapters with different content around a chapter
\* with content that is not selected
C5_Witness ==
    /\ Acted("get_filtered_content")
    /\ Len(book) = 3
    /\ Selected = {1, 3}
    /\ book[2].kind = "Chapter"
    /\ book[2].content # << >>
    /\ book[1].content # book[3].content

\* the document names at least one file to prepend or to append
HasAuxFiles(d) ==
    \/ is_some(d.prepend) /\ unwrap(d.prepend) # << >>
    \/ is_some(d.append) /\ unwrap(d.append) # << >>

\* C6: pandoc is run for the combine step only for a document with a
\* non-empty prepend or append list; a document without any is converted by
\* its primary conversion alone.
C6_CombineOnlyWithAuxFiles ==
    \A k \in 1..Len(calls) :
        calls[k].kind = "combine" => HasAuxFiles(documents[calls[k].doc])

\* the list behind an optional list
ListOf(o) == IF is_some(o) THEN unwrap(o) ELSE << >>

\* C7: the inputs of the combine call are the prepend paths joined to the
\* root in list order, then the primary output file
\* root/book/docx/filename, then the append paths joined to the root in list
\* order, whatever the lengths of the two lists.
C7_CombineInputOrder ==
    \A k \in 1..Len(calls) :
        calls[k].kind = "combine" =>
            LET d == documents[calls[k].doc]
                pre == ListOf(d.prepend)
                app == ListOf(d.append)
                f == calls[k].files
            IN  /\ Len(f) = Len(pre) + 1 + Len(app)
                /\ \A n \in 1..Len(pre) : f[n] = join(root, pre[n])
                /\ f[Len(pre) + 1] =
                       join(Path(root.abs, root.comps \o <<"book", "docx">>), d.filename)
                /\ \A n \in 1..Len(app) : f[Len(pre) + 1 + n] = join(root, app[n])

\* C7 witness: a combine call of a document with two different prepend files
\* and an append file
C7_Witness ==
    /\ Len(calls) = 2
    /\ calls[2].kind = "combine"
    /\ Len(ListOf(documents[1].prepend)) = 2
    /\ documents[1].prepend[1][1] # documents[1].prepend[1][2]
    /\ Len(ListOf(documents[1].append)) = 1

\* C8: a failed primary conversion is the only pandoc run of its document and
\* Document::process returns the converter error carrying that failure; no
\* document causes more than two pandoc runs.
C8_PrimaryFailureIsFinal ==
    /\ \A i \in 1..Len(documents) : Cardinality(CallsOf(i)) <= 2
    /\ \A k \in 1..Len(calls) :
          (calls[k].kind = "primary" /\ calls[k].outcome # "Ok") =>
              /\ CallsOf(calls[k].doc) = {k}
              /\ Failed(calls[k].doc)
              /\ docResults[calls[k].doc] = ConverterError(calls[k].outcome)

\* C8 witness: the primary conversion of the second document failed after
\* the first document took its two pandoc runs, and the run has ended
C8_Witness ==
    /\ pc = "returned"
    /\ Len(calls) = 3
    /\ calls[3].kind = "primary"
    /\ calls[3].doc = 2
    /\ calls[3].outcome = "PandocError::IoErr"

\* the options C9 lists for a root and a document
ExpectedOptions(r, d) ==
    <<DataDir(r), ResourcePath(<<Path(r.abs, r.comps \o <<"src">>)>>),
      AtxHeaders, ReferenceLinks>>
    \o (IF d.offset_headings_by = None THEN << >>
        ELSE <<ShiftHeadingLevelBy(d.offset_headings_by[1])>>)
    \o (IF d.template = None THEN << >>
        ELSE <<ReferenceDoc(join(r, d.template[1]))>>)
    \o [n \in 1..Len(ListOf(d.prepend)) |-> IncludeBeforeBody(join(r, ListOf(d.prepend)[n]))]
    \o [n \in 1..Len(ListOf(d.append)) |-> IncludeAfterBody(join(r, ListOf(d.append)[n]))]

\* C9: assign_options leaves exactly DataDir(root), ResourcePath([root/src]),
\* AtxHeaders, ReferenceLinks, then ShiftHeadingLevelBy(n) iff an offset is
\* given, ReferenceDoc(root joined with template) iff a template is given, one
\* IncludeBeforeBody per prepend path and one IncludeAfterBody per append
\* path, each joined to the root and in list order.
C9_OptionsAreAsListed ==
    Acted("assign_options") => pandoc_config.options = ExpectedOptions(root, doc)

\* C9 witness: options built for a document with an offset, a template, two
\* prepend files and an append file
C9_Witness ==
    /\ Acted("assign_options")
    /\ doc.offset_headings_by = Some(-1)
    /\ doc.template # None
    /\ Len(ListOf(doc.prepend)) = 2
    /\ Len(ListOf(doc.append)) = 1
    /\ Len(pandoc_config.options) = 9

\* C10: assign_options is idempotent: applied again to the config it has
\* already filled it leaves the same options, and the options of the primary
\* conversion and of the combine step of one document are equal.
C10_OptionsIdempotent ==
    /\ Acted("assign_options") =>
          assign_options(pandoc_config, root, doc).options = pandoc_config.options
    /\ \A k, m \in 1..Len(calls) :
          calls[k].doc = calls[m].doc => calls[k].options = calls[m].options

\* C10 witness: both pandoc runs of a document with files to prepend and to
\* append have been made with the same, non-trivial options
C10_Witness ==
    /\ Len(calls) = 2
    /\ calls[1].kind = "primary"
    /\ calls[2].kind = "combine"
    /\ calls[1].options = calls[2].options
    /\ Len(calls[1].options) >= 7

\* some include entry of the document is no valid glob
HasInvalidGlob(d) ==
    \E n \in 1..Len(ListOf(d.include)) : ~Pattern_new(ListOf(d.include)[n]).ok

\* C11: an include entry that is no valid glob makes Document::process
\* return an error to DocumentList::process (which returns it), the run does
\* not abort, and pandoc is not run for the document.
C11_InvalidGlobIsReturnedError ==
    (idx <= Len(documents) /\ HasInvalidGlob(doc) /\ Acted("get_patterns")) =>
        /\ pc \in {"check", "returned"}
        /\ Failed(idx)
        /\ CallsOf(idx) = {}
        /\ pc = "returned" => listResult = docResults[idx]

\* C12: the EmptyFilteredContent failure cannot happen: no document ever
\* returns it, and once get_chapters has selected at least one chapter the
\* assembled content is not empty, also when every selected chapter has empty
\* content.
C12_EmptyContentUnreachable ==
    /\ \A i \in 1..Len(docResults) : docResults[i] # EmptyFilteredContent
    /\ Acted("get_filtered_content") =>
          /\ chapters # << >>
          /\ content # << >>
          /\ pc # "check" \/ result # EmptyFilteredContent

\* C12 witness: the content has been assembled from selected chapters that
\* all have empty content
C12_Witness ==
    /\ Acted("get_filtered_content")
    /\ Selected # {}
    /\ \A k \in Selected : book[k].content = << >>
    /\ content # << >>

\* the steps of the log that run pandoc, in the order taken
ConvertingSteps == SelectSeq(log, LAMBDA e : e[2] \in {"execute", "combine_sections"})

\* the state part of C13
C13_Order ==
    \* steps are taken document by document, in list order
    /\ \A k, m \in 1..Len(log) : k < m => log[k][1] <= log[m][1]
    \* a step of document j is taken only after every earlier document returned
    /\ \A k \in 1..Len(log) : log[k][1] <= Len(docResults) + 1
    \* the pandoc runs are the converting steps, one by one in the same order
    /\ Len(calls) = Len(ConvertingSteps)
    /\ \A k \in 1..Len(calls) :
          /\ calls[k].doc = ConvertingSteps[k][1]
          /\ calls[k].kind =
                 IF ConvertingSteps[k][2] = "execute" THEN "primary" ELSE "combine"
          \* the k-th document processed is the k-th document of the list
          /\ calls[k].doc \in 1..Len(documents)
          /\ calls[k].output = documents[calls[k].doc].filename
    \* within a document: the primary conversion, completed, then the combine
    /\ \A k, m \in 1..Len(calls) :
          (k < m /\ calls[k].doc = calls[m].doc) =>
              /\ calls[k].kind = "primary"
              /\ calls[k].outcome = "Ok"
              /\ calls[m].kind = "combine"
              /\ m = k + 1

\* C13: the pandoc runs are strictly sequential and ordered: documents are
\* processed in list order, the primary conversion of a document has
\* completed before its combine run starts, both are over before any step of
\* the next document, and no step changes the book.
C13_SequentialInListOrder == [](C13_Order) /\ [][book' = book]_vars

\* C13 witness: two documents with different filenames have each had their
\* primary and their combine run, one document after the other
C13_Witness ==
    /\ Len(calls) = 4
    /\ calls[2].doc = 1
    /\ calls[3].doc = 2
    /\ documents[1].filename # documents[2].filename
    /\ book # << >>

\* C14: the middle input of the combine run of a document, the entry after
\* its prepend paths, is the very file the primary conversion of that
\* document wrote.
C14_CombineReadsPrimaryOutput ==
    \A k \in 1..Len(calls) :
        calls[k].kind = "combine" =>
            LET d == documents[calls[k].doc]
                main == calls[k].files[Len(ListOf(d.prepend)) + 1]
            IN  \A w \in written : w.doc = calls[k].doc => main = w.path

====
